---- MODULE Spec2Model ----
(***************************************************************************)
(* Gatekeeper task generator (scripts/gatekeeper-taskgen): the manifest    *)
(* identity and reference rewriting engine.                                *)
(*                                                                         *)
(* Names, kinds and namespaces are TLA+ strings; fmt.Sprintf is modelled   *)
(* by string concatenation, so that "web-2" produced by the allocator and  *)
(* "web-2" given as a base name are the same value, as in the program.     *)
(***************************************************************************)
EXTENDS Integers, Sequences, FiniteSets, TLC

(***************************************************************************)
(* Bounds of the model.                                                    *)
(***************************************************************************)
\* allocate calls made on the stand-alone allocator (SpecAlloc)
MaxCalls == 4
\* tasks of one generation run (Spec)
NumTasks == 2
\* cases of one task
MaxCases == 2
\* inventory files of one case in a generation run (Spec)
MaxInv == 1
\* inventory files of one case in the bundle specification (SpecBundle)
MaxBundleInv == 2
\* manifests recorded for the task of the bundle specification (SpecBundle)
MaxManifests == 3

(***************************************************************************)
(* Absent values.  A YAML field that is missing (or is not a string) is    *)
(* the value None; getStr turns it into "" as the Go helper does.          *)
(***************************************************************************)
None == "<absent>"

getStr(v) == IF v = None THEN "" ELSE v

\* fmt.Sprintf("%02d", n) for n >= 0
Sprintf02d(n) == IF n < 10 THEN "0" \o ToString(n) ELSE ToString(n)

\* fmt.Sprintf("%s-%d", base, i)
SprintfSuffix(base, i) == base \o "-" \o ToString(i)

\* strings.Contains(s, sub)
Contains(s, sub) ==
    \E i \in 1..(Len(s) - Len(sub) + 1) : SubSeq(s, i, i + Len(sub) - 1) = sub

(***************************************************************************)
(* nameKey, nameMap, nameAllocator                                         *)
(***************************************************************************)
nameKey(kind, namespace, name) ==
    [kind |-> kind, namespace |-> namespace, name |-> name]

\* newNameMap: no entries.  entries is a function from nameKey to string.
newNameMap == <<>>

nameMapSet(entries, kind, namespace, original, renamed) ==
    IF original = "" THEN entries
    ELSE LET key == nameKey(kind, namespace, original)
         IN  [k \in (DOMAIN entries) \cup {key} |->
                 IF k = key THEN renamed ELSE entries[k]]

\* mapName, with the entries looked up by name alone
mapNameByNameOnly(entries, kind, namespace, name) ==
    IF name = "" THEN name
    ELSE IF \E k \in DOMAIN entries : k.name = name
         THEN entries[CHOOSE k \in DOMAIN entries : k.name = name]
         ELSE name

\* mapName, with a synthetic name written when the lookup finds no entry
mapNameSynthetic(entries, kind, namespace, name) ==
    IF name = "" THEN name
    ELSE IF nameKey(kind, namespace, name) \in DOMAIN entries
         THEN entries[nameKey(kind, namespace, name)]
         ELSE "resource-unknown"

mapName(entries, kind, namespace, name) ==
    IF name = "" THEN name
    ELSE IF nameKey(kind, namespace, name) \in DOMAIN entries
         THEN entries[nameKey(kind, namespace, name)]
         ELSE name

\* newNameAllocator: used is the set of keys whose map value is true
newNameAllocator == {}

RECURSIVE allocateSuffix(_, _, _, _, _)
allocateSuffix(usedKeys, kind, namespace, base, i) ==
    LET candidate == SprintfSuffix(base, i)
        key == nameKey(kind, namespace, candidate)
    IN  IF key \notin usedKeys
        THEN [name |-> candidate, wasRenamed |-> TRUE, used |-> usedKeys \cup {key}]
        ELSE allocateSuffix(usedKeys, kind, namespace, base, i + 1)

\* allocate, with the suffix search started at 1 instead of 2
allocateFromOne(usedKeys, kind, namespace, base) ==
    IF base = ""
    THEN [name |-> "", wasRenamed |-> FALSE, used |-> usedKeys]
    ELSE IF nameKey(kind, namespace, base) \notin usedKeys
         THEN [name |-> base, wasRenamed |-> FALSE,
               used |-> usedKeys \cup {nameKey(kind, namespace, base)}]
         ELSE allocateSuffix(usedKeys, kind, namespace, base, 1)

\* allocate, with the unsuffixed base returned but not reserved
allocateNoReserve(usedKeys, kind, namespace, base) ==
    IF base = ""
    THEN [name |-> "", wasRenamed |-> FALSE, used |-> usedKeys]
    ELSE IF nameKey(kind, namespace, base) \notin usedKeys
         THEN [name |-> base, wasRenamed |-> FALSE, used |-> usedKeys]
         ELSE allocateSuffix(usedKeys, kind, namespace, base, 2)

\* allocate, with an empty base replaced by a default name
allocateDefaultEmpty(usedKeys, kind, namespace, base) ==
    LET b == IF base = "" THEN "resource" ELSE base
    IN  IF nameKey(kind, namespace, b) \notin usedKeys
        THEN [name |-> b, wasRenamed |-> FALSE,
              used |-> usedKeys \cup {nameKey(kind, namespace, b)}]
        ELSE allocateSuffix(usedKeys, kind, namespace, b, 2)

allocate(usedKeys, kind, namespace, base) ==
    IF base = ""
    THEN [name |-> "", wasRenamed |-> FALSE, used |-> usedKeys]
    ELSE IF nameKey(kind, namespace, base) \notin usedKeys
         THEN [name |-> base, wasRenamed |-> FALSE,
               used |-> usedKeys \cup {nameKey(kind, namespace, base)}]
         ELSE allocateSuffix(usedKeys, kind, namespace, base, 2)

(***************************************************************************)
(* Documents.  A document is a record of the fields the generator reads or *)
(* writes.  String fields hold None when absent; the optional sub-objects  *)
(* (labels, scaleTargetRef, roleRef, replicas) are sequences of length 0   *)
(* or 1.  serviceAccountName, claimNames, initContainers and containers    *)
(* are the fields of the pod spec of the kind (spec for a Pod,             *)
(* spec.template.spec for a workload).  isNil marks the nil map that       *)
(* readYAMLDocs returns for a YAML document without content (a comment or  *)
(* null): reading a nil map gives the zero value, writing to it panics.    *)
(***************************************************************************)
Doc(kind, name, namespace) ==
    [isNil |-> FALSE,
     kind |-> kind, name |-> name, namespace |-> namespace, labels |-> <<>>,
     scaleTargetRef |-> <<>>, storageClassName |-> None,
     volumeClaimTemplates |-> <<>>, serviceAccountName |-> None,
     claimNames |-> <<>>, replicas |-> <<>>,
     initContainers |-> <<>>, containers |-> <<>>, ephemeralContainers |-> FALSE,
     subjects |-> <<>>, roleRef |-> <<>>]

\* the nil map of a YAML document without content
NilDoc == [Doc(None, None, None) EXCEPT !.isNil = TRUE]

\* ensureMap(parent, key) assigns parent[key] when the key holds no map: a
\* run-time panic on a nil parent
ensureMapPanics(parent) == parent.isNil

Container(name, image, command, args) ==
    [name |-> name, image |-> image, command |-> command, args |-> args]

isClusterScoped(kind) ==
    kind \in {"Namespace", "ClusterRole", "ClusterRoleBinding", "StorageClass"}

\* the table of cluster-scoped kinds kept next to the name helpers
clusterScopedKinds ==
    {"APIService", "ClusterRole", "ClusterRoleBinding", "CustomResourceDefinition",
     "CSIDriver", "CSINode", "FlowSchema", "MutatingWebhookConfiguration",
     "Namespace", "Node", "PersistentVolume", "PodSecurityPolicy", "PriorityClass",
     "RuntimeClass", "StorageClass", "ValidatingWebhookConfiguration",
     "VolumeAttachment"}

isClusterScopedKind(kind) == kind \in clusterScopedKinds

isAdmissionReview(doc) == getStr(doc.kind) = "AdmissionReview"

isDeployable(doc) ==
    IF getStr(doc.kind) # "Pod" THEN TRUE
    ELSE IF doc.ephemeralContainers THEN FALSE
    ELSE LET all == doc.containers \o doc.initContainers
         IN  \A i, j \in 1..Len(all) :
                (i < j /\ all[i].name # None) => all[i].name # all[j].name

(***************************************************************************)
(* rewriteManifest: identity, references, deployability.                   *)
(* ctx is manifestRewriteContext: name, ns, nameMap, taskID, expected,     *)
(* isInv.                                                                  *)
(***************************************************************************)
\* fmt.Sprintf("%t", b)
SprintfBool(b) == IF b THEN "true" ELSE "false"

\* applyIdentity, with the namespace set only when the source has none
applyIdentityKeepNamespace(doc, ctx) ==
    [doc EXCEPT
        !.name = ctx.name,
        !.namespace = IF ~isClusterScoped(getStr(doc.kind)) /\ @ = None
                      THEN ctx.ns ELSE @,
        !.labels = <<[task |-> ctx.taskID, expected |-> ctx.expected,
                      inventory |-> SprintfBool(ctx.isInv)]>>]

applyIdentity(doc, ctx) ==
    [doc EXCEPT
        !.name = ctx.name,
        !.namespace = IF ~isClusterScoped(getStr(doc.kind)) THEN ctx.ns ELSE @,
        !.labels = <<[task |-> ctx.taskID, expected |-> ctx.expected,
                      inventory |-> SprintfBool(ctx.isInv)]>>]

rewriteVolumeClaimTemplates(doc, entries) ==
    [doc EXCEPT !.volumeClaimTemplates =
        [i \in 1..Len(@) |->
            IF @[i] # None THEN mapName(entries, "StorageClass", "", @[i]) ELSE @[i]]]

rewritePodSpecRefs(doc, entries, ns) ==
    [doc EXCEPT
        !.serviceAccountName =
            IF @ # None THEN mapName(entries, "ServiceAccount", ns, @) ELSE @,
        !.claimNames =
            [i \in 1..Len(@) |-> mapName(entries, "PersistentVolumeClaim", ns, @[i])]]

rewritePodTemplateRefs(doc, entries, ns) == rewritePodSpecRefs(doc, entries, ns)

\* the subject rule, applied to subjects of every kind
rewriteSubjectAnyKind(sm, entries, ns) ==
    [sm EXCEPT
        !.name = IF @ # None
                 THEN LET subjectNS == IF getStr(sm.namespace) = ""
                                       THEN ns ELSE getStr(sm.namespace)
                      IN  mapName(entries, "ServiceAccount", subjectNS, @)
                 ELSE @,
        !.namespace = IF @ = None THEN ns ELSE @]

rewriteSubject(sm, entries, ns) ==
    IF sm.kind # "ServiceAccount" THEN sm
    ELSE [sm EXCEPT
            !.name = IF @ # None
                     THEN LET subjectNS == IF getStr(sm.namespace) = ""
                                           THEN ns ELSE getStr(sm.namespace)
                          IN  mapName(entries, "ServiceAccount", subjectNS, @)
                     ELSE @,
            !.namespace = IF @ = None THEN ns ELSE @]

rewriteRoleRef(ref, entries, ns) ==
    IF ref.name = None THEN ref
    ELSE LET refKind == IF getStr(ref.kind) = "" THEN "Role" ELSE getStr(ref.kind)
             refNS == IF refKind = "Role" THEN ns ELSE ""
         IN  [ref EXCEPT !.name = mapName(entries, refKind, refNS, @)]

rewriteRoleBindingRefs(doc, entries, ns) ==
    [doc EXCEPT
        !.subjects = [i \in 1..Len(@) |-> rewriteSubject(@[i], entries, ns)],
        !.roleRef = [i \in 1..Len(@) |-> rewriteRoleRef(@[i], entries, ns)]]

maxBetaReplicas == 5

\* fixReplicaCount, with the count capped at the policy limit of the corpus
fixReplicaCountAtLimit(doc, expected) ==
    IF expected # "beta" THEN doc
    ELSE [doc EXCEPT !.replicas = [i \in 1..Len(@) |-> IF @[i] > 3 THEN 3 ELSE @[i]]]

fixReplicaCount(doc, expected) ==
    IF expected # "beta" THEN doc
    ELSE [doc EXCEPT !.replicas =
            [i \in 1..Len(@) |-> IF @[i] > maxBetaReplicas THEN maxBetaReplicas ELSE @[i]]]

rewriteScaleTargetRef(ref, entries, ns) ==
    LET refKind == getStr(ref.kind)
    IN  IF ref.name # None /\ refKind # ""
        THEN [ref EXCEPT !.name = mapName(entries, refKind, ns, @)]
        ELSE ref

rewriteReferences(doc, ctx) ==
    LET kind == getStr(doc.kind)
    IN  CASE kind = "HorizontalPodAutoscaler" ->
                [doc EXCEPT !.scaleTargetRef =
                    [i \in 1..Len(@) |-> rewriteScaleTargetRef(@[i], ctx.nameMap, ctx.ns)]]
          [] kind = "PersistentVolumeClaim" ->
                [doc EXCEPT !.storageClassName =
                    IF @ # None THEN mapName(ctx.nameMap, "StorageClass", "", @) ELSE @]
          [] kind = "StatefulSet" ->
                rewritePodTemplateRefs(
                    rewriteVolumeClaimTemplates(doc, ctx.nameMap), ctx.nameMap, ctx.ns)
          [] kind \in {"Deployment", "ReplicaSet", "DaemonSet"} ->
                fixReplicaCount(rewritePodTemplateRefs(doc, ctx.nameMap, ctx.ns),
                                ctx.expected)
          [] kind = "Pod" ->
                rewritePodSpecRefs(doc, ctx.nameMap, ctx.ns)
          [] kind \in {"RoleBinding", "ClusterRoleBinding"} ->
                rewriteRoleBindingRefs(doc, ctx.nameMap, ctx.ns)
          [] OTHER -> doc

\* podSpecForWorkload: whether the kind carries a pod spec
podSpecForWorkload(doc) ==
    getStr(doc.kind) \in {"Pod", "Deployment", "ReplicaSet", "DaemonSet", "StatefulSet"}

fixInitContainer(c) ==
    LET image == getStr(c.image)
    IN  IF Contains(image, "nginx")
        THEN [c EXCEPT !.command = <<"sh", "-c", "exit 0">>, !.args = <<>>]
        ELSE IF Contains(image, "opa")
             THEN [c EXCEPT !.command = <<"opa", "eval", "true">>, !.args = <<>>]
             ELSE c

\* fixInitContainers, with the override applied to the main containers too
fixInitContainersAndMain(doc) ==
    IF ~podSpecForWorkload(doc) THEN doc
    ELSE [doc EXCEPT
            !.initContainers = [i \in 1..Len(@) |-> fixInitContainer(@[i])],
            !.containers = [i \in 1..Len(@) |-> fixInitContainer(@[i])]]

fixInitContainers(doc) ==
    IF ~podSpecForWorkload(doc) THEN doc
    ELSE [doc EXCEPT !.initContainers = [i \in 1..Len(@) |-> fixInitContainer(@[i])]]

\* the replacement table, with "tomcat" replaced by an image that is itself
\* an entry of the table
fixBadImageChained(c) ==
    IF c.image = "tomcat" THEN [c EXCEPT !.image = "nginx:1.7.9"]
    ELSE IF c.image = "nginx:1.7.9" THEN [c EXCEPT !.image = "nginx:1.25"]
    ELSE c

fixBadImage(c) ==
    IF c.image = "tomcat" THEN [c EXCEPT !.image = "nginx"]
    ELSE IF c.image = "nginx:1.7.9" THEN [c EXCEPT !.image = "nginx:1.25"]
    ELSE c

fixBadImages(doc) ==
    IF ~podSpecForWorkload(doc) THEN doc
    ELSE [doc EXCEPT
            !.containers = [i \in 1..Len(@) |-> fixBadImage(@[i])],
            !.initContainers = [i \in 1..Len(@) |-> fixBadImage(@[i])]]

applyDeployabilityFixes(doc) == fixBadImages(fixInitContainers(doc))

rewriteManifest(doc, ctx) ==
    applyDeployabilityFixes(rewriteReferences(applyIdentity(doc, ctx), ctx))

VARIABLES
    used,        \* nameAllocator.used of the stand-alone allocator
    calls,       \* history: the allocate calls made so far, with their results
    usedBefore   \* history: used as it was before the last call

allocVars == <<used, calls, usedBefore>>

VARIABLES
    pc,            \* "run": between tasks; "cases": between cases of
                   \* GenerateManifests; "rewrite": in the rewrite-and-save loop
                   \* of a case; "done": run has returned; "panic": the
                   \* process has ended in a run-time panic
    taskNo,        \* tasks of sortedKeys(taskMap) taken so far
    generated,     \* run: generated
    skipped,       \* run: skipped
    task,          \* TaskMetadata of the task being generated
    caseNo,        \* cases of task.Cases iterated so far
    alphaIdx,
    betaIdx,
    invIdx,
    nsSet,
    artifacts,     \* TaskArtifacts
    nameMap,       \* nameMap.entries of the case
    nameAllocator, \* nameAllocator.used of the case
    origDocs,      \* the documents of allDocs as they were read
    allDocs,       \* docInfo: doc (rewritten in place), newName, isInv
    docNo,         \* position of the rewrite-and-save loop in allDocs
    invFileIdx,
    caseFileIdx,
    files,         \* the output directory: path -> identity of the document written
    scripts        \* the output directory: task id -> commands of setup.sh, cleanup.sh

genVars == <<pc, taskNo, generated, skipped, task, caseNo, alphaIdx, betaIdx, invIdx,
             nsSet, artifacts, nameMap, nameAllocator, origDocs, allDocs, docNo,
             invFileIdx, caseFileIdx, files, scripts>>

VARIABLES
    normExpected,  \* ctx.expected of the document being normalised
    normInput,     \* the document as it was read
    normDoc,       \* the document, mutated in place by the rules applied so far
    normPrev,      \* history: the document as it was before the last rule
    normRules      \* history: the rules applied so far, in order

normVars == <<normExpected, normInput, normDoc, normPrev, normRules>>

VARIABLES
    vpc,           \* the validator's run: "idle", "run", "loop" (spawning the
                   \* goroutines), "wait" (in wg.Wait), "returned"
    tasks,         \* the task directories handed to the validation
    config,        \* ValidateConfig
    results,       \* validateTasksParallel: results
    wg,            \* the WaitGroup's counter
    sem,           \* number of tokens in the channel sem
    mu,            \* 0: unlocked, idx: locked by the goroutine of task idx
    spawned,       \* iterations of the loop over tasks done so far
    gpc,           \* position of each goroutine: "sem", "validate", "lock",
                   \* "store", "release", "wgdone", "done"
    goResult,      \* each goroutine's local variable result
    returned,      \* the result list run has received
    validated,     \* history: calls of validateTask completed per task
    storeOrder     \* history: the indices in the order their results were stored

valVars == <<vpc, tasks, config, results, wg, sem, mu, spawned, gpc, goResult,
             returned, validated, storeOrder>>

vars == <<allocVars, genVars, normVars, valVars>>

(***************************************************************************)
(* The generation run: run -> generateTask -> GenerateManifests.           *)
(***************************************************************************)
\* sortedKeys(taskMap): distinct task ids in sorted order
TaskID(i) == "t" \o ToString(i)

defaultNS == "gk-" \o task.TaskID

NoTask == [TaskID |-> "", Cases |-> <<>>]

newArtifacts ==
    [Manifests |-> <<>>, CaseFiles |-> <<>>, InventoryFiles |-> <<>>,
     Namespaces |-> {}, ClusterResources |-> <<>>]

InitGen ==
    /\ pc = "run"
    /\ taskNo = 0
    /\ generated = 0
    /\ skipped = 0
    /\ task = NoTask
    /\ caseNo = 0
    /\ alphaIdx = 1
    /\ betaIdx = 1
    /\ invIdx = 1
    /\ nsSet = {}
    /\ artifacts = newArtifacts
    /\ nameMap = newNameMap
    /\ nameAllocator = newNameAllocator
    /\ origDocs = <<>>
    /\ allDocs = <<>>
    /\ docNo = 1
    /\ invFileIdx = 1
    /\ caseFileIdx = 1
    /\ files = <<>>
    /\ scripts = <<>>

\* no document is being normalised on its own
InitNormIdle ==
    /\ normExpected = "alpha"
    /\ normInput = NilDoc
    /\ normDoc = NilDoc
    /\ normPrev = NilDoc
    /\ normRules = <<>>

\* no validation is running
InitValIdle ==
    /\ vpc = "idle"
    /\ tasks = <<>>
    /\ config = [Parallel |-> 1]
    /\ results = <<>>
    /\ wg = 0
    /\ sem = 0
    /\ mu = 0
    /\ spawned = 0
    /\ gpc = <<>>
    /\ goResult = <<>>
    /\ returned = <<>>
    /\ validated = <<>>
    /\ storeOrder = <<>>

Init ==
    /\ InitGen
    /\ InitNormIdle
    /\ InitValIdle
    /\ used = newNameAllocator
    /\ calls = <<>>
    /\ usedBefore = {}

\* shouldSkip; listed: the task matches an entry of cfg.SkipList
shouldSkip(listed, cases) ==
    \/ listed
    \/ ~\E i \in 1..Len(cases) : cases[i].Expected = "alpha"
    \/ ~\E i \in 1..Len(cases) : cases[i].Expected # "alpha"

\* the cases of a task: case i is named "case-i"
CasesOf(expecteds) ==
    [i \in 1..Len(expecteds) |->
        [Name |-> "case-" \o ToString(i), Expected |-> expecteds[i]]]

SeqsUpTo(S, n) == UNION {[1..m -> S] : m \in 0..n}

ExpectedLists == {CasesOf(e) : e \in SeqsUpTo({"alpha", "beta"}, MaxCases) \ {<<>>}}

\* run: a task that shouldSkip rejects
SkipTask(numTasks, listed, cases) ==
    /\ pc = "run"
    /\ taskNo < numTasks
    /\ shouldSkip(listed, cases)
    /\ taskNo' = taskNo + 1
    /\ skipped' = skipped + 1
    /\ UNCHANGED allocVars
    /\ UNCHANGED normVars
    /\ UNCHANGED valVars
    /\ UNCHANGED <<pc, generated, task, caseNo, alphaIdx, betaIdx, invIdx, nsSet,
                   artifacts, nameMap, nameAllocator, origDocs, allDocs, docNo,
                   invFileIdx, caseFileIdx, files, scripts>>

\* run calls generateTask, which enters GenerateManifests
BeginTask(numTasks, cases) ==
    /\ pc = "run"
    /\ taskNo < numTasks
    /\ ~shouldSkip(FALSE, cases)
    /\ taskNo' = taskNo + 1
    /\ task' = [TaskID |-> TaskID(taskNo + 1), Cases |-> cases]
    /\ caseNo' = 0
    /\ alphaIdx' = 1
    /\ betaIdx' = 1
    /\ invIdx' = 1
    /\ nsSet' = {"gk-" \o TaskID(taskNo + 1)}
    /\ artifacts' = newArtifacts
    /\ pc' = "cases"
    /\ UNCHANGED allocVars
    /\ UNCHANGED normVars
    /\ UNCHANGED valVars
    /\ UNCHANGED <<generated, skipped, nameMap, nameAllocator, origDocs, allDocs,
                   docNo, invFileIdx, caseFileIdx, files, scripts>>

\* len(caseDocs) == 0 || isAdmissionReview(caseDocs[0]) || !isDeployable(caseDocs[0])
dropsCase(caseDocs) ==
    IF Len(caseDocs) = 0 THEN TRUE
    ELSE isAdmissionReview(caseDocs[1]) \/ ~isDeployable(caseDocs[1])

\* the object file of the case gives no document, an AdmissionReview or a
\* Pod that is not deployable: continue
DropCase(caseDocs) ==
    /\ pc = "cases"
    /\ caseNo < Len(task.Cases)
    /\ dropsCase(caseDocs)
    /\ caseNo' = caseNo + 1
    /\ UNCHANGED allocVars
    /\ UNCHANGED normVars
    /\ UNCHANGED valVars
    /\ UNCHANGED <<pc, taskNo, generated, skipped, task, alphaIdx, betaIdx, invIdx,
                   nsSet, artifacts, nameMap, nameAllocator, origDocs, allDocs,
                   docNo, invFileIdx, caseFileIdx, files, scripts>>

\* "Load inventory docs": the first document of every inventory file that
\* has one and is no AdmissionReview
RECURSIVE loadInventory(_)
loadInventory(invFiles) ==
    IF invFiles = <<>> THEN <<>>
    ELSE LET docs == Head(invFiles)
         IN  (IF Len(docs) > 0 /\ ~isAdmissionReview(docs[1]) THEN <<docs[1]>> ELSE <<>>)
             \o loadInventory(Tail(invFiles))

scopeNamespace(kind, ns) == IF ~isClusterScoped(kind) THEN ns ELSE ""

\* the loop over invDocs; st holds nameMap, used, invIdx, allDocs
RECURSIVE allocateInventory(_, _, _)
allocateInventory(invDocs, ns, st) ==
    IF invDocs = <<>> THEN st
    ELSE LET doc == Head(invDocs)
             kind == getStr(doc.kind)
             namespace == scopeNamespace(kind, ns)
             origName == getStr(doc.name)
             baseName == IF origName = ""
                         THEN "resource-inventory-" \o Sprintf02d(st.invIdx)
                         ELSE origName
             r == allocate(st.used, kind, namespace, baseName)
         IN  allocateInventory(Tail(invDocs), ns,
                [nameMap |-> nameMapSet(st.nameMap, kind, namespace, origName, r.name),
                 used |-> r.used,
                 invIdx |-> st.invIdx + 1,
                 allDocs |-> Append(st.allDocs,
                                [doc |-> doc, newName |-> r.name, isInv |-> TRUE])])

\* the generated name of a subject: resource-<expected>-NN
subjectName(expected, idx) ==
    IF expected = "alpha"
    THEN "resource-alpha-" \o Sprintf02d(idx)
    ELSE "resource-beta-" \o Sprintf02d(idx)

subjectBase(origName, name) == IF origName = "" THEN name ELSE origName

\* the loop over caseDocs[:1], with the subject's name not recorded in the map
allocateSubjectNoSet(doc, expected, idx, ns, st) ==
    LET kind == getStr(doc.kind)
        namespace == scopeNamespace(kind, ns)
        origName == getStr(doc.name)
        baseName == subjectBase(origName, subjectName(expected, idx))
        r == allocate(st.used, kind, namespace, baseName)
    IN  [nameMap |-> st.nameMap,
         used |-> r.used,
         invIdx |-> st.invIdx,
         allDocs |-> Append(st.allDocs,
                        [doc |-> doc, newName |-> r.name, isInv |-> FALSE])]

\* the loop over caseDocs[:1]
allocateSubject(doc, expected, idx, ns, st) ==
    LET kind == getStr(doc.kind)
        namespace == scopeNamespace(kind, ns)
        origName == getStr(doc.name)
        baseName == subjectBase(origName, subjectName(expected, idx))
        r == allocate(st.used, kind, namespace, baseName)
    IN  [nameMap |-> nameMapSet(st.nameMap, kind, namespace, origName, r.name),
         used |-> r.used,
         invIdx |-> st.invIdx,
         allDocs |-> Append(st.allDocs,
                        [doc |-> doc, newName |-> r.name, isInv |-> FALSE])]

CurrentCase == task.Cases[caseNo + 1]

\* the state a case starts from, with the name map of the previous case kept
newCaseStateSharedMap(prevMap, prevUsed, idx) ==
    [nameMap |-> prevMap, used |-> newNameAllocator, invIdx |-> idx, allDocs |-> <<>>]

\* "Build name map and collect docs": the state a case starts from; prevMap
\* and prevUsed are the map and the allocator of the case before
newCaseState(prevMap, prevUsed, idx) ==
    [nameMap |-> newNameMap, used |-> newNameAllocator, invIdx |-> idx, allDocs |-> <<>>]

\* one case, up to the end of "Build name map and collect docs"
BuildCase(caseDocs, invFiles, maxManifests) ==
    /\ pc = "cases"
    /\ caseNo < Len(task.Cases)
    /\ ~dropsCase(caseDocs)
    /\ Len(artifacts.Manifests) + Len(loadInventory(invFiles)) + 1 <= maxManifests
    /\ LET c == CurrentCase
           invDocs == loadInventory(invFiles)
           st0 == newCaseState(nameMap, nameAllocator, invIdx)
           st1 == allocateInventory(invDocs, defaultNS, st0)
           st2 == allocateSubject(caseDocs[1], c.Expected,
                                  IF c.Expected = "alpha" THEN alphaIdx ELSE betaIdx,
                                  defaultNS, st1)
       IN  /\ nameMap' = st2.nameMap
           /\ nameAllocator' = st2.used
           /\ invIdx' = st2.invIdx
           /\ allDocs' = st2.allDocs
           /\ origDocs' = [i \in 1..Len(st2.allDocs) |-> st2.allDocs[i].doc]
           /\ alphaIdx' = IF c.Expected = "alpha" THEN alphaIdx + 1 ELSE alphaIdx
           /\ betaIdx' = IF c.Expected = "alpha" THEN betaIdx ELSE betaIdx + 1
    /\ invFileIdx' = 1
    /\ caseFileIdx' = 1
    /\ docNo' = 1
    /\ pc' = "rewrite"
    /\ UNCHANGED allocVars
    /\ UNCHANGED normVars
    /\ UNCHANGED valVars
    /\ UNCHANGED <<taskNo, generated, skipped, task, caseNo, nsSet, artifacts, files, scripts>>

docIdentity(doc) ==
    [kind |-> getStr(doc.kind), namespace |-> doc.namespace, name |-> doc.name]

appendTo(m, key, v) ==
    [k \in (DOMAIN m) \cup {key} |->
        IF k = key THEN (IF key \in DOMAIN m THEN Append(m[key], v) ELSE <<v>>)
        ELSE m[k]]

\* the cluster resource recorded for a document of every kind
recordClusterResourceAlways(resources, kind, name) ==
    Append(resources, [Kind |-> kind, Name |-> name])

\* if isClusterScoped(kind) { artifacts.ClusterResources = append(...) }
recordClusterResource(resources, kind, name) ==
    IF isClusterScoped(kind)
    THEN Append(resources, [Kind |-> kind, Name |-> name])
    ELSE resources

\* one iteration of "Rewrite and save"
RewriteAndSave ==
    /\ pc = "rewrite"
    /\ docNo <= Len(allDocs)
    /\ ~ensureMapPanics(allDocs[docNo].doc)
    /\ LET c == CurrentCase
           d == allDocs[docNo]
           ctx == [name |-> d.newName, ns |-> defaultNS, nameMap |-> nameMap,
                   taskID |-> task.TaskID, expected |-> c.Expected, isInv |-> d.isInv]
           doc == rewriteManifest(d.doc, ctx)
           kind == getStr(doc.kind)
           ns == getStr(doc.namespace)
           fileName == IF d.isInv
                       THEN "inventory-" \o Sprintf02d(invFileIdx) \o ".yaml"
                       ELSE c.Expected \o "-" \o Sprintf02d(caseFileIdx) \o ".yaml"
           relPath == "artifacts/" \o fileName
           path == task.TaskID \o "/" \o relPath
           manifest == [Path |-> path, RelPath |-> relPath, Doc |-> docIdentity(doc),
                        Inventory |-> d.isInv, CaseName |-> c.Name,
                        Expected |-> c.Expected, Kind |-> kind, Name |-> d.newName,
                        Namespace |-> ns, ClusterScoped |-> isClusterScoped(kind)]
       IN  /\ allDocs' = [allDocs EXCEPT ![docNo].doc = doc]
           /\ nsSet' = IF ns # "" THEN nsSet \cup {ns} ELSE nsSet
           /\ files' = [p \in (DOMAIN files) \cup {path} |->
                           IF p = path THEN docIdentity(doc) ELSE files[p]]
           /\ artifacts' =
                [artifacts EXCEPT
                    !.Manifests = Append(@, manifest),
                    !.InventoryFiles = IF d.isInv THEN appendTo(@, c.Name, relPath) ELSE @,
                    !.CaseFiles = IF d.isInv THEN @ ELSE appendTo(@, c.Name, relPath),
                    !.ClusterResources = recordClusterResource(@, kind, d.newName)]
           /\ invFileIdx' = IF d.isInv THEN invFileIdx + 1 ELSE invFileIdx
           /\ caseFileIdx' = IF d.isInv THEN caseFileIdx ELSE caseFileIdx + 1
    /\ docNo' = docNo + 1
    /\ UNCHANGED allocVars
    /\ UNCHANGED normVars
    /\ UNCHANGED valVars
    /\ UNCHANGED <<pc, taskNo, generated, skipped, task, caseNo, alphaIdx, betaIdx,
                   invIdx, nameMap, nameAllocator, origDocs, scripts>>

\* rewriteManifest panics in applyIdentity (assignment to entry in nil map):
\* nothing recovers, the process ends inside run
RewritePanics ==
    /\ pc = "rewrite"
    /\ docNo <= Len(allDocs)
    /\ ensureMapPanics(allDocs[docNo].doc)
    /\ pc' = "panic"
    /\ UNCHANGED allocVars
    /\ UNCHANGED normVars
    /\ UNCHANGED valVars
    /\ UNCHANGED <<taskNo, generated, skipped, task, caseNo, alphaIdx, betaIdx, invIdx,
                   nsSet, artifacts, nameMap, nameAllocator, origDocs, allDocs, docNo,
                   invFileIdx, caseFileIdx, files, scripts>>

\* the rewrite-and-save loop is over: next case
EndCase ==
    /\ pc = "rewrite"
    /\ docNo > Len(allDocs)
    /\ caseNo' = caseNo + 1
    /\ pc' = "cases"
    /\ UNCHANGED allocVars
    /\ UNCHANGED normVars
    /\ UNCHANGED valVars
    /\ UNCHANGED <<taskNo, generated, skipped, task, alphaIdx, betaIdx, invIdx, nsSet,
                   artifacts, nameMap, nameAllocator, origDocs, allDocs, docNo,
                   invFileIdx, caseFileIdx, files, scripts>>

\* a kubectl command of a generated script
Kubectl(verb, kind, name) == [verb |-> verb, kind |-> kind, name |-> name]

\* writeScripts: the commands of setup.sh and cleanup.sh that name a resource
writeScripts(taskID, arts) ==
    LET namespaces == {n \in arts.Namespaces : ~(n = "default" \/ n = "kube-system")}
        nsSetup == UNION {{Kubectl("delete", "namespace", n),
                           Kubectl("create", "namespace", n),
                           Kubectl("wait", "namespace", n)} : n \in namespaces}
        nsCleanup == {Kubectl("delete", "namespace", n) : n \in namespaces}
        resCleanup == {Kubectl("delete", arts.ClusterResources[i].Kind,
                               arts.ClusterResources[i].Name) :
                          i \in 1..Len(arts.ClusterResources)}
    IN  [setup |-> nsSetup, cleanup |-> nsCleanup \cup resCleanup]

\* os.WriteFile of setup.sh and cleanup.sh into the task's directory
saveScripts(dir, taskID, arts) ==
    [t \in (DOMAIN dir) \cup {taskID} |->
        IF t = taskID THEN writeScripts(taskID, arts) ELSE dir[t]]

\* GenerateManifests returns and generateTask succeeds
FinishTask ==
    /\ pc = "cases"
    /\ caseNo = Len(task.Cases)
    /\ artifacts' = [artifacts EXCEPT !.Namespaces = nsSet]
    /\ scripts' = saveScripts(scripts, task.TaskID, artifacts')
    /\ generated' = generated + 1
    /\ pc' = "run"
    /\ UNCHANGED allocVars
    /\ UNCHANGED normVars
    /\ UNCHANGED valVars
    /\ UNCHANGED <<taskNo, skipped, task, caseNo, alphaIdx, betaIdx, invIdx, nsSet,
                   nameMap, nameAllocator, origDocs, allDocs, docNo, invFileIdx,
                   caseFileIdx, files>>

\* GenerateManifests returns and generateTask returns an error (BuildPrompt
\* or repairTask failed)
FailTask ==
    /\ pc = "cases"
    /\ caseNo = Len(task.Cases)
    /\ artifacts' = [artifacts EXCEPT !.Namespaces = nsSet]
    /\ \E reached \in BOOLEAN :
          scripts' = IF reached THEN saveScripts(scripts, task.TaskID, artifacts')
                     ELSE scripts
    /\ skipped' = skipped + 1
    /\ pc' = "run"
    /\ UNCHANGED allocVars
    /\ UNCHANGED normVars
    /\ UNCHANGED valVars
    /\ UNCHANGED <<taskNo, generated, task, caseNo, alphaIdx, betaIdx, invIdx, nsSet,
                   nameMap, nameAllocator, origDocs, allDocs, docNo, invFileIdx,
                   caseFileIdx, files>>

\* run has gone through every task and returns
RunDone(numTasks) ==
    /\ pc = "run"
    /\ taskNo = numTasks
    /\ pc' = "done"
    /\ UNCHANGED allocVars
    /\ UNCHANGED normVars
    /\ UNCHANGED valVars
    /\ UNCHANGED <<taskNo, generated, skipped, task, caseNo, alphaIdx, betaIdx, invIdx,
                   nsSet, artifacts, nameMap, nameAllocator, origDocs, allDocs, docNo,
                   invFileIdx, caseFileIdx, files, scripts>>

(***************************************************************************)
(* Inputs of a generation run (Spec): documents that differ in identity.   *)
(***************************************************************************)
RunDocs ==
    {Doc("Pod", "example", None),
     Doc("Pod", None, None),
     Doc("StorageClass", "fast", None),
     NilDoc}

\* object files that make GenerateManifests drop the case
DroppedFiles ==
    {<<>>,
     <<Doc("AdmissionReview", None, None)>>,
     <<[Doc("Pod", "example", None) EXCEPT !.ephemeralContainers = TRUE]>>,
     <<[Doc("Pod", "example", None) EXCEPT
            !.containers = <<Container("c", "nginx", <<>>, <<>>)>>,
            !.initContainers = <<Container("c", "nginx", <<>>, <<>>)>>]>>}

RunInvFiles ==
    {<<>>, <<Doc("AdmissionReview", None, None)>>,
     <<Doc("StorageClass", "fast", None)>>, <<Doc("Pod", "example", None)>>}

RunInvChoices == SeqsUpTo(RunInvFiles, MaxInv)

Next ==
    \/ \E listed \in BOOLEAN, cases \in ExpectedLists : SkipTask(NumTasks, listed, cases)
    \/ \E cases \in ExpectedLists : BeginTask(NumTasks, cases)
    \/ \E caseDocs \in DroppedFiles : DropCase(caseDocs)
    \/ \E doc \in RunDocs, invFiles \in RunInvChoices :
          BuildCase(<<doc>>, invFiles, MaxCases * (MaxInv + 1))
    \/ RewriteAndSave
    \/ RewritePanics
    \/ EndCase
    \/ FinishTask
    \/ FailTask
    \/ RunDone(NumTasks)

Spec == Init /\ [][Next]_vars

(***************************************************************************)
(* Inputs of one task whose bundles carry references (SpecBundle).         *)
(***************************************************************************)
Subject(kind, name, namespace) == [kind |-> kind, name |-> name, namespace |-> namespace]

RoleRef(kind, name) == [kind |-> kind, name |-> name]

\* inventory documents: what the subject depends on
BundleInvDocs ==
    {Doc("ServiceAccount", "sa1", None),
     Doc("ServiceAccount", "sa1", "other"),
     Doc("StorageClass", "fast", None),
     Doc("ClusterRole", "cr", "other"),
     Doc("Role", "r", "other"),
     Doc("Widget", "fast", "other"),
     Doc("Namespace", "default", None),
     [Doc("Deployment", "web", None) EXCEPT !.serviceAccountName = "sa1"],
     [Doc("PersistentVolumeClaim", "data", None) EXCEPT !.storageClassName = "fast"],
     Doc(None, "nokind", None)}

\* subject documents
BundleDocs ==
    {Doc("ServiceAccount", "sa1", None),
     Doc("ClusterRole", "cr", "other"),
     [Doc("Deployment", "web", None) EXCEPT
         !.serviceAccountName = "sa1", !.replicas = <<100>>],
     [Doc("PersistentVolumeClaim", "data", None) EXCEPT !.storageClassName = "custom-sc"],
     [Doc("PersistentVolumeClaim", "claim", None) EXCEPT !.storageClassName = "fast"],
     [Doc("Pod", None, None) EXCEPT
         !.serviceAccountName = "sa1", !.claimNames = <<"data">>],
     [Doc("HorizontalPodAutoscaler", "h", None) EXCEPT
         !.scaleTargetRef = <<RoleRef("Deployment", "web")>>],
     [Doc("RoleBinding", "rb", "other") EXCEPT
         !.subjects = <<Subject("ServiceAccount", "sa1", "other"),
                        Subject("User", "bob", None),
                        Subject("ServiceAccount", "sa1", None)>>,
         !.roleRef = <<RoleRef("Role", "r")>>],
     [Doc("ClusterRoleBinding", "crb", None) EXCEPT
         !.subjects = <<Subject("ServiceAccount", "sa1", None),
                        Subject("Group", "sa1", None)>>,
         !.roleRef = <<RoleRef("ClusterRole", "cr")>>],
     Doc("PriorityClass", "high", None),
     NilDoc}

BundleInvFiles == {<<d>> : d \in BundleInvDocs}

BundleInvChoices == SeqsUpTo(BundleInvFiles, MaxBundleInv)

NextBundle ==
    \/ \E listed \in BOOLEAN, cases \in ExpectedLists : SkipTask(1, listed, cases)
    \/ \E cases \in ExpectedLists : BeginTask(1, cases)
    \/ \E caseDocs \in DroppedFiles : DropCase(caseDocs)
    \/ \E doc \in BundleDocs, invFiles \in BundleInvChoices :
          BuildCase(<<doc>>, invFiles, MaxManifests)
    \/ RewriteAndSave
    \/ RewritePanics
    \/ EndCase
    \/ FinishTask
    \/ FailTask
    \/ RunDone(1)

SpecBundle == Init /\ [][NextBundle]_vars

(***************************************************************************)
(* The allocator as an object: newNameAllocator, then allocate calls.      *)
(***************************************************************************)
AllocKinds == {"Deployment", "StorageClass"}
AllocNamespaces == {"ns-a", ""}
AllocBases == {"web", "web-2", ""}

InitAlloc ==
    /\ used = newNameAllocator
    /\ calls = <<>>
    /\ usedBefore = {}
    /\ InitGen
    /\ InitNormIdle
    /\ InitValIdle

Allocate(kind, namespace, base) ==
    /\ Len(calls) < MaxCalls
    /\ LET r == allocate(used, kind, namespace, base)
       IN  /\ used' = r.used
           /\ calls' = Append(calls, [kind |-> kind, namespace |-> namespace,
                                      base |-> base, name |-> r.name,
                                      wasRenamed |-> r.wasRenamed])
    /\ usedBefore' = used
    /\ UNCHANGED genVars
    /\ UNCHANGED normVars
    /\ UNCHANGED valVars

NextAlloc ==
    \E kind \in AllocKinds, namespace \in AllocNamespaces, base \in AllocBases :
        Allocate(kind, namespace, base)

SpecAlloc == InitAlloc /\ [][NextAlloc]_vars

(***************************************************************************)
(* The deployability rules applied to one document (SpecNormalize): the    *)
(* document is drawn from NormDocs, then rewriteManifest or single rules   *)
(* are applied to it, each mutating the document in place.                 *)
(***************************************************************************)
\* replica counts 0..MaxReplicas are declared, and 100 as in the corpus
MaxReplicas == 7
\* rules applied to one document
MaxRules == 2

NormReplicas == {<<>>} \cup {<<r>> : r \in (0..MaxReplicas) \cup {100}}

\* the initContainers and containers of a pod spec
NormPodSpecs ==
    {[init |-> <<>>, main |-> <<>>],
     [init |-> <<Container("init", "nginx:1.25", <<"nginx", "-g", "daemon off;">>, <<"-q">>)>>,
      main |-> <<Container("app", "nginx:1.25", <<"nginx", "-g", "daemon off;">>, <<"-q">>)>>],
     [init |-> <<Container("init", "openpolicyagent/opa:0.9.2", <<>>, <<"run", "--server">>)>>,
      main |-> <<Container("app", "tomcat", <<>>, <<>>)>>],
     [init |-> <<Container("init", "tomcat", <<"catalina.sh", "run">>, <<>>)>>,
      main |-> <<Container("app", "nginx:1.7.9", <<>>, <<"-q">>)>>],
     [init |-> <<Container("init", "busybox", <<"sleep", "1">>, <<>>)>>,
      main |-> <<Container("app", "busybox", <<"sleep", "3600">>, <<>>)>>]}

NormDocs ==
    {[Doc(kind, "web", None) EXCEPT
         !.replicas = r, !.initContainers = ps.init, !.containers = ps.main] :
        kind \in {"Deployment", "ReplicaSet", "StatefulSet"},
        r \in NormReplicas, ps \in NormPodSpecs}
    \cup {[Doc(kind, "web", None) EXCEPT
              !.initContainers = ps.init, !.containers = ps.main] :
             kind \in {"Pod", "DaemonSet"}, ps \in NormPodSpecs}
    \cup {[Doc("Service", "web", None) EXCEPT !.replicas = <<100>>]}

InitNormalize ==
    /\ InitGen
    /\ InitValIdle
    /\ used = newNameAllocator
    /\ calls = <<>>
    /\ usedBefore = {}
    /\ normExpected \in {"alpha", "beta"}
    /\ normInput \in NormDocs
    /\ normDoc = normInput
    /\ normPrev = normInput
    /\ normRules = <<>>

\* the context GenerateManifests hands to rewriteManifest for a subject
normCtx ==
    [name |-> subjectName(normExpected, 1), ns |-> "gk-t1", nameMap |-> newNameMap,
     taskID |-> "t1", expected |-> normExpected, isInv |-> FALSE]

ApplyRule(rule, result) ==
    /\ Len(normRules) < MaxRules
    /\ normDoc' = result
    /\ normPrev' = normDoc
    /\ normRules' = Append(normRules, rule)
    /\ UNCHANGED <<normExpected, normInput>>
    /\ UNCHANGED allocVars
    /\ UNCHANGED genVars
    /\ UNCHANGED valVars

RewriteManifest == ApplyRule("rewriteManifest", rewriteManifest(normDoc, normCtx))

FixReplicaCount == ApplyRule("fixReplicaCount", fixReplicaCount(normDoc, normExpected))

FixInitContainers == ApplyRule("fixInitContainers", fixInitContainers(normDoc))

FixBadImages == ApplyRule("fixBadImages", fixBadImages(normDoc))

ApplyDeployabilityFixes ==
    ApplyRule("applyDeployabilityFixes", applyDeployabilityFixes(normDoc))

NextNormalize ==
    \/ RewriteManifest
    \/ FixReplicaCount
    \/ FixInitContainers
    \/ FixBadImages
    \/ ApplyDeployabilityFixes

SpecNormalize == InitNormalize /\ [][NextNormalize]_vars

(***************************************************************************)
(* The validator (SpecValidate): run chooses validateTasksSequential or    *)
(* validateTasksParallel; the parallel one starts one goroutine per task,  *)
(* each taking a token of sem, validating, storing under mu, and giving    *)
(* the token and the WaitGroup count back.                                 *)
(***************************************************************************)
MaxValTasks == 3
MaxParallel == 3

\* what validateTask finds in a task directory
TaskContents ==
    {[broken |-> TRUE, alpha |-> 0, beta |-> 0],
     [broken |-> FALSE, alpha |-> 0, beta |-> 1],
     [broken |-> FALSE, alpha |-> 1, beta |-> 1]}

\* findGatekeeperTasks: a sorted list of distinct directories
TaskLists ==
    UNION {{[i \in 1..n |-> [name |-> "gk-" \o ToString(i), content |-> c[i]]] :
               c \in [1..n -> TaskContents]} : n \in 1..MaxValTasks}

\* the zero value of ValidationResult
ZeroResult ==
    [TaskName |-> "", Passed |-> FALSE, AlphaViolations |-> 0, BetaViolations |-> 0,
     Error |-> ""]

validateTask(td) ==
    IF td.content.broken
    THEN [ZeroResult EXCEPT !.TaskName = td.name, !.Error = "reading constraint"]
    ELSE [ZeroResult EXCEPT
             !.TaskName = td.name,
             !.AlphaViolations = td.content.alpha,
             !.BetaViolations = td.content.beta,
             !.Passed = (td.content.alpha = 0 /\ td.content.beta > 0)]

RECURSIVE validateTasksSequential(_)
validateTasksSequential(ts) ==
    IF ts = <<>> THEN <<>>
    ELSE <<validateTask(Head(ts))>> \o validateTasksSequential(Tail(ts))

\* run: "Return error if any failed"
runFails(rs) == \E i \in 1..Len(rs) : ~rs[i].Passed

InitValidate ==
    /\ InitGen
    /\ InitNormIdle
    /\ used = newNameAllocator
    /\ calls = <<>>
    /\ usedBefore = {}
    /\ vpc = "run"
    /\ tasks \in TaskLists
    /\ config \in [Parallel : 1..MaxParallel]
    /\ results = <<>>
    /\ wg = 0
    /\ sem = 0
    /\ mu = 0
    /\ spawned = 0
    /\ gpc = <<>>
    /\ goResult = <<>>
    /\ returned = <<>>
    /\ validated = [i \in 1..Len(tasks) |-> 0]
    /\ storeOrder = <<>>

ValUnchangedOthers ==
    /\ UNCHANGED allocVars
    /\ UNCHANGED genVars
    /\ UNCHANGED normVars

\* run with config.Parallel <= 1
RunSequential ==
    /\ vpc = "run"
    /\ ~(config.Parallel > 1)
    /\ returned' = validateTasksSequential(tasks)
    /\ validated' = [i \in 1..Len(tasks) |-> 1]
    /\ vpc' = "returned"
    /\ ValUnchangedOthers
    /\ UNCHANGED <<tasks, config, results, wg, sem, mu, spawned, gpc, goResult,
                   storeOrder>>

\* run with config.Parallel > 1: validateTasksParallel up to its loop
RunParallel ==
    /\ vpc = "run"
    /\ config.Parallel > 1
    /\ results' = [i \in 1..Len(tasks) |-> ZeroResult]
    /\ gpc' = [i \in 1..Len(tasks) |-> "unborn"]
    /\ goResult' = [i \in 1..Len(tasks) |-> ZeroResult]
    /\ vpc' = "loop"
    /\ ValUnchangedOthers
    /\ UNCHANGED <<tasks, config, wg, sem, mu, spawned, returned, validated, storeOrder>>

\* one iteration of the loop: wg.Add(1); go func(idx, td)
Spawn ==
    /\ vpc = "loop"
    /\ spawned < Len(tasks)
    /\ wg' = wg + 1
    /\ gpc' = [gpc EXCEPT ![spawned + 1] = "sem"]
    /\ spawned' = spawned + 1
    /\ ValUnchangedOthers
    /\ UNCHANGED <<vpc, tasks, config, results, sem, mu, goResult, returned,
                   validated, storeOrder>>

\* the loop is over: wg.Wait() is entered
LoopEnd ==
    /\ vpc = "loop"
    /\ spawned = Len(tasks)
    /\ vpc' = "wait"
    /\ ValUnchangedOthers
    /\ UNCHANGED <<tasks, config, results, wg, sem, mu, spawned, gpc, goResult,
                   returned, validated, storeOrder>>

\* the capacity of sem, with one token more than config.Parallel
semCapacityPlusOne == config.Parallel + 1

\* sem := make(chan struct{}, config.Parallel)
semCapacity == config.Parallel

\* sem <- struct{}{}: blocks while the channel is full; validateTask starts
Acquire(idx) ==
    /\ gpc[idx] = "sem"
    /\ sem < semCapacity
    /\ sem' = sem + 1
    /\ gpc' = [gpc EXCEPT ![idx] = "validate"]
    /\ ValUnchangedOthers
    /\ UNCHANGED <<vpc, tasks, config, results, wg, mu, spawned, goResult, returned,
                   validated, storeOrder>>

\* validateTask(td, config) returns
Validate(idx) ==
    /\ gpc[idx] = "validate"
    /\ goResult' = [goResult EXCEPT ![idx] = validateTask(tasks[idx])]
    /\ validated' = [validated EXCEPT ![idx] = @ + 1]
    /\ gpc' = [gpc EXCEPT ![idx] = "lock"]
    /\ ValUnchangedOthers
    /\ UNCHANGED <<vpc, tasks, config, results, wg, sem, mu, spawned, returned,
                   storeOrder>>

\* mu.Lock()
Lock(idx) ==
    /\ gpc[idx] = "lock"
    /\ mu = 0
    /\ mu' = idx
    /\ gpc' = [gpc EXCEPT ![idx] = "store"]
    /\ ValUnchangedOthers
    /\ UNCHANGED <<vpc, tasks, config, results, wg, sem, spawned, goResult, returned,
                   validated, storeOrder>>

\* the result put into the first slot that is still empty
storeResultFirstFree(rs, idx, r) ==
    LET free == {i \in 1..Len(rs) : rs[i] = ZeroResult}
    IN  IF free = {} THEN rs
        ELSE [rs EXCEPT ![CHOOSE i \in free : \A j \in free : i <= j] = r]

\* results[idx] = result
storeResult(rs, idx, r) == [rs EXCEPT ![idx] = r]

\* results[idx] = result; the status line; mu.Unlock()
Store(idx) ==
    /\ gpc[idx] = "store"
    /\ mu = idx
    /\ results' = storeResult(results, idx, goResult[idx])
    /\ storeOrder' = Append(storeOrder, idx)
    /\ mu' = 0
    /\ gpc' = [gpc EXCEPT ![idx] = "release"]
    /\ ValUnchangedOthers
    /\ UNCHANGED <<vpc, tasks, config, wg, sem, spawned, goResult, returned, validated>>

\* the deferred <-sem
Release(idx) ==
    /\ gpc[idx] = "release"
    /\ sem > 0
    /\ sem' = sem - 1
    /\ gpc' = [gpc EXCEPT ![idx] = "wgdone"]
    /\ ValUnchangedOthers
    /\ UNCHANGED <<vpc, tasks, config, results, wg, mu, spawned, goResult, returned,
                   validated, storeOrder>>

\* the deferred wg.Done()
Done(idx) ==
    /\ gpc[idx] = "wgdone"
    /\ wg' = wg - 1
    /\ gpc' = [gpc EXCEPT ![idx] = "done"]
    /\ ValUnchangedOthers
    /\ UNCHANGED <<vpc, tasks, config, results, sem, mu, spawned, goResult, returned,
                   validated, storeOrder>>

\* wg.Wait() returns; return results
Wait ==
    /\ vpc = "wait"
    /\ wg = 0
    /\ returned' = results
    /\ vpc' = "returned"
    /\ ValUnchangedOthers
    /\ UNCHANGED <<tasks, config, results, wg, sem, mu, spawned, gpc, goResult,
                   validated, storeOrder>>

NextValidate ==
    \/ RunSequential
    \/ RunParallel
    \/ Spawn
    \/ LoopEnd
    \/ \E idx \in 1..Len(gpc) : Acquire(idx)
    \/ \E idx \in 1..Len(gpc) : Validate(idx)
    \/ \E idx \in 1..Len(gpc) : Lock(idx)
    \/ \E idx \in 1..Len(gpc) : Store(idx)
    \/ \E idx \in 1..Len(gpc) : Release(idx)
    \/ \E idx \in 1..Len(gpc) : Done(idx)
    \/ Wait

SpecValidate == InitValidate /\ [][NextValidate]_vars

\* a step of the goroutine started for tasks[idx]
GoStep(idx) ==
    /\ idx \in 1..Len(gpc)
    /\ (Acquire(idx) \/ Validate(idx) \/ Lock(idx) \/ Store(idx) \/ Release(idx)
           \/ Done(idx))

\* the Go scheduler lets every goroutine that can take a step take it
\* eventually, and validateTask returns
SpecValidateLive ==
    /\ InitValidate
    /\ [][NextValidate]_vars
    /\ WF_vars(RunSequential \/ RunParallel \/ Spawn \/ LoopEnd \/ Wait)
    /\ \A idx \in 1..MaxValTasks : WF_vars(GoStep(idx))

(***************************************************************************)
(* Properties of the allocator (checked under SpecAlloc).                  *)
(***************************************************************************)
\* the i-th name of the sequence base, base-2, base-3, ...
Candidate(base, i) == IF i = 1 THEN base ELSE SprintfSuffix(base, i)

LastCall == calls[Len(calls)]

callKey(c) == nameKey(c.kind, c.namespace, c.name)

\* C7: for every allocator state and every non-empty base, allocate returns
\* the first name of base, base-2, base-3, ... that is unused for the (kind,
\* namespace), marks exactly that name as used, and reports wasRenamed exactly
\* when the returned name differs from the base; ("Deployment","ns-a","web")
\* twice yields "web" then "web-2".
C7_AllocateFirstFree ==
    /\ (calls # <<>> /\ LastCall.base # "") =>
          /\ \E i \in 1..(Cardinality(usedBefore) + 1) :
                /\ LastCall.name = Candidate(LastCall.base, i)
                /\ nameKey(LastCall.kind, LastCall.namespace, LastCall.name) \notin usedBefore
                /\ \A j \in 1..(i - 1) :
                      nameKey(LastCall.kind, LastCall.namespace,
                              Candidate(LastCall.base, j)) \in usedBefore
          /\ used = usedBefore \cup {callKey(LastCall)}
          /\ LastCall.wasRenamed <=> (LastCall.name # LastCall.base)
    /\ (/\ Len(calls) = 2
        /\ \A i \in 1..2 : /\ calls[i].kind = "Deployment"
                           /\ calls[i].namespace = "ns-a"
                           /\ calls[i].base = "web")
          => (calls[1].name = "web" /\ calls[2].name = "web-2")

\* the third request for "web" in one scope, after "web" and "web-2" were issued
C7_Witness ==
    /\ calls # <<>>
    /\ LastCall.base = "web"
    /\ LastCall.name = "web-3"
    /\ LastCall.wasRenamed

\* C8: after any sequence of allocate calls with non-empty bases on one
\* allocator, no two calls have returned the same (kind, namespace, name), and
\* every returned name is recorded as used.
C8_ReturnedUnique ==
    /\ \A i, j \in 1..Len(calls) :
          (i < j /\ calls[i].base # "" /\ calls[j].base # "")
             => callKey(calls[i]) # callKey(calls[j])
    /\ \A i \in 1..Len(calls) :
          calls[i].base # "" => callKey(calls[i]) \in used

\* the base "web-2" is requested after "web-2" was already issued as a suffixed name
C8_Witness ==
    \E i, j \in 1..Len(calls) :
        /\ i < j
        /\ calls[i].base = "web" /\ calls[i].name = "web-2"
        /\ calls[j].base = "web-2" /\ calls[j].name = "web-2-2"
        /\ calls[i].kind = calls[j].kind
        /\ calls[i].namespace = calls[j].namespace

\* C9: allocate with an empty base returns the empty name with wasRenamed
\* false (the empty-identity signal; no call with a non-empty base returns it),
\* leaves the allocator state unchanged and substitutes no default name.
C9_EmptyBase ==
    /\ (calls # <<>> /\ LastCall.base = "") =>
          /\ LastCall.name = ""
          /\ ~LastCall.wasRenamed
          /\ used = usedBefore
    /\ \A i \in 1..Len(calls) : (calls[i].name = "") <=> (calls[i].base = "")
    /\ \A k \in used : k.name # ""

\* an empty base is passed to an allocator that already holds names
C9_Witness ==
    /\ calls # <<>>
    /\ LastCall.base = ""
    /\ usedBefore # {}

(***************************************************************************)
(* Properties of the generation run (Spec) and of a bundle (SpecBundle).   *)
(***************************************************************************)
\* document i of the current bundle has gone through rewriteManifest
Rewritten(i) == pc = "rewrite" /\ i \in 1..Len(allDocs) /\ i < docNo

Range(f) == {f[x] : x \in DOMAIN f}

\* C1: across all tasks and cases of one generation run, no two written
\* documents have the same (kind, namespace, name).
C1_WrittenUnique ==
    \A p, q \in DOMAIN files : p # q => files[p] # files[q]

\* C2: the allocator's set of issued names lives for the whole run: a key
\* reserved while processing one case is still reserved when a later case
\* allocates.
C2_AllocatorPersists == [][nameAllocator \subseteq nameAllocator']_vars

\* the namespace a document lives in, as it is written ("default" when it has none)
docNs(doc) == IF getStr(doc.namespace) = "" THEN "default" ELSE doc.namespace

ref(f, i, kind, ns, name) == [f |-> f, i |-> i, kind |-> kind, ns |-> ns, name |-> name]

\* the reference fields of a document that rewriteReferences handles, each
\* with the kind and the scope it is resolved in; ownNs is the namespace of
\* the referencing document
RefsIn(doc, ownNs) ==
    LET kind == getStr(doc.kind)
        podRefs ==
            (IF getStr(doc.serviceAccountName) # ""
             THEN {ref("serviceAccountName", 1, "ServiceAccount", ownNs,
                       doc.serviceAccountName)}
             ELSE {})
            \cup {ref("claimName", i, "PersistentVolumeClaim", ownNs, doc.claimNames[i]) :
                     i \in 1..Len(doc.claimNames)}
    IN  CASE kind = "HorizontalPodAutoscaler" ->
                {ref("scaleTargetRef", i, doc.scaleTargetRef[i].kind, ownNs,
                     doc.scaleTargetRef[i].name) :
                    i \in {j \in 1..Len(doc.scaleTargetRef) :
                              /\ getStr(doc.scaleTargetRef[j].kind) # ""
                              /\ getStr(doc.scaleTargetRef[j].name) # ""}}
          [] kind = "PersistentVolumeClaim" ->
                IF getStr(doc.storageClassName) # ""
                THEN {ref("storageClassName", 1, "StorageClass", "", doc.storageClassName)}
                ELSE {}
          [] kind = "StatefulSet" ->
                podRefs \cup
                {ref("volumeClaimTemplates", i, "StorageClass", "",
                     doc.volumeClaimTemplates[i]) :
                    i \in {j \in 1..Len(doc.volumeClaimTemplates) :
                              getStr(doc.volumeClaimTemplates[j]) # ""}}
          [] kind \in {"Deployment", "ReplicaSet", "DaemonSet", "Pod"} -> podRefs
          [] kind \in {"RoleBinding", "ClusterRoleBinding"} ->
                {ref("subjects", i, "ServiceAccount",
                     IF getStr(doc.subjects[i].namespace) = "" THEN ownNs
                     ELSE doc.subjects[i].namespace,
                     doc.subjects[i].name) :
                    i \in {j \in 1..Len(doc.subjects) :
                              /\ doc.subjects[j].kind = "ServiceAccount"
                              /\ getStr(doc.subjects[j].name) # ""}}
                \cup
                {ref("roleRef", i,
                     IF getStr(doc.roleRef[i].kind) = "" THEN "Role" ELSE doc.roleRef[i].kind,
                     IF getStr(doc.roleRef[i].kind) \in {"", "Role"} THEN ownNs ELSE "",
                     doc.roleRef[i].name) :
                    i \in {j \in 1..Len(doc.roleRef) : getStr(doc.roleRef[j].name) # ""}}
          [] OTHER -> {}

\* the reference r, read in the source documents, names the source document e
NamesDoc(r, e) ==
    /\ getStr(e.kind) = r.kind
    /\ getStr(e.name) = r.name
    /\ isClusterScoped(r.kind) \/ docNs(e) = r.ns

\* C3: referential closure: every reference field handled by
\* rewriteReferences that named a document of the same bundle before
\* rewriting holds that document's canonical name (and namespace) after
\* rewriting.
C3_ReferentialClosure ==
    (pc = "rewrite" /\ docNo > Len(allDocs)) =>
        \A d, e \in 1..Len(allDocs) :
            \A r \in RefsIn(origDocs[d], docNs(origDocs[d])) :
                (/\ NamesDoc(r, origDocs[e])
                 /\ \A x \in 1..Len(allDocs) : NamesDoc(r, origDocs[x]) => x = e)
                =>
                \E q \in RefsIn(allDocs[d].doc, docNs(allDocs[d].doc)) :
                    /\ q.f = r.f
                    /\ q.i = r.i
                    /\ q.name = allDocs[e].newName
                    /\ q.name = allDocs[e].doc.name
                    /\ isClusterScoped(q.kind) \/ q.ns = docNs(allDocs[e].doc)

Digits == {"0", "1", "2", "3", "4", "5", "6", "7", "8", "9"}

\* name begins with resource-<expected>-<digit>
HasSubjectForm(name, expected) ==
    LET prefix == "resource-" \o expected \o "-"
    IN  /\ Len(name) > Len(prefix)
        /\ SubSeq(name, 1, Len(prefix)) = prefix
        /\ SubSeq(name, Len(prefix) + 1, Len(prefix) + 1) \in Digits

\* C4: the canonical name of every subject document has the form
\* resource-alpha-<counter> (expected alpha) or resource-beta-<counter>
\* (expected beta), whatever its original metadata.name is.
C4_SubjectNameForm ==
    pc = "rewrite" =>
        \A i \in 1..Len(allDocs) :
            ~allDocs[i].isInv => HasSubjectForm(allDocs[i].newName, CurrentCase.Expected)

\* C5: every rewritten document of a cluster-scoped kind has no
\* metadata.namespace, whatever the source document contained.
C5_ClusterScopedNoNamespace ==
    \A i \in 1..Len(allDocs) :
        (Rewritten(i) /\ isClusterScoped(getStr(allDocs[i].doc.kind)))
            => allDocs[i].doc.namespace = None

\* C6: every rewritten document whose kind is not classified cluster-scoped
\* has metadata.namespace equal to "gk-"+TaskID, whether the source omitted
\* the namespace or named another one; so every namespace-scoped manifest of
\* the task is recorded in that one namespace.
C6_NamespaceScopedInTaskNamespace ==
    /\ \A i \in 1..Len(allDocs) :
          (Rewritten(i) /\ ~isClusterScoped(getStr(allDocs[i].doc.kind)))
             => allDocs[i].doc.namespace = "gk-" \o task.TaskID
    /\ \A k \in 1..Len(artifacts.Manifests) :
          LET m == artifacts.Manifests[k]
          IN  ~isClusterScoped(m.Kind) =>
                 /\ m.Namespace = "gk-" \o task.TaskID
                 /\ m.Doc.namespace = "gk-" \o task.TaskID

\* a document of an unknown kind that named another namespace and a
\* namespace-scoped document without a namespace have both been rewritten
C6_Witness ==
    /\ \E i \in 1..Len(allDocs) :
          /\ Rewritten(i)
          /\ origDocs[i].kind = "Widget"
          /\ origDocs[i].namespace = "other"
          /\ allDocs[i].doc.namespace = "gk-t1"
    /\ \E j \in 1..Len(allDocs) :
          /\ Rewritten(j)
          /\ ~isClusterScoped(getStr(origDocs[j].kind))
          /\ origDocs[j].namespace = None

\* C10: a reference field whose lookup (kind, scope, name) has no entry in
\* the name map keeps its original value after rewriteReferences, and every
\* value a reference field holds afterwards is its original value or a
\* canonical name of the map: no synthetic name is written.
C10_UnresolvedPassThrough ==
    \A i \in 1..Len(allDocs) :
        Rewritten(i) =>
            LET before == RefsIn(origDocs[i], "gk-" \o task.TaskID)
                after == RefsIn(allDocs[i].doc, "gk-" \o task.TaskID)
            IN  /\ \A r \in before :
                      nameKey(r.kind, r.ns, r.name) \notin DOMAIN nameMap
                         => \E q \in after : q.f = r.f /\ q.i = r.i /\ q.name = r.name
                /\ \A q \in after :
                      \E r \in before :
                          /\ q.f = r.f
                          /\ q.i = r.i
                          /\ q.name = r.name \/ q.name \in Range(nameMap)

\* a PersistentVolumeClaim with storageClassName "custom-sc" has been
\* rewritten in a bundle whose map holds a StorageClass, but not "custom-sc"
C10_Witness ==
    \E i \in 1..Len(allDocs) :
        /\ Rewritten(i)
        /\ origDocs[i].kind = "PersistentVolumeClaim"
        /\ origDocs[i].storageClassName = "custom-sc"
        /\ allDocs[i].doc.storageClassName = "custom-sc"
        /\ nameKey("StorageClass", "", "custom-sc") \notin DOMAIN nameMap
        /\ nameKey("StorageClass", "", "fast") \in DOMAIN nameMap

\* the map key a document of the bundle is recorded under
ownKey(doc) ==
    nameKey(getStr(doc.kind), scopeNamespace(getStr(doc.kind), "gk-" \o task.TaskID),
            getStr(doc.name))

\* C11: once the name map of a bundle is built, every document of the bundle
\* with a non-empty original name resolves, through its own original (kind,
\* scope, name) key, to its own canonical name: no entry is overwritten, also
\* when two inventory documents have the same kind and original name.
C11_OwnKeyResolves ==
    pc = "rewrite" =>
        \A i \in 1..Len(allDocs) :
            getStr(origDocs[i].name) # "" =>
                mapName(nameMap, ownKey(origDocs[i]).kind, ownKey(origDocs[i]).namespace,
                        ownKey(origDocs[i]).name) = allDocs[i].newName

\* C12: the scope classifier consulted by GenerateManifests and applyIdentity
\* returns true for every kind of the closed cluster-scoped set (cluster role
\* bindings, storage classes, namespaces, admission webhook configurations,
\* Node, PriorityClass), i.e. it agrees on every kind with the
\* clusterScopedKinds table, and false for every other kind: every recorded
\* manifest carries the table's classification of its kind.
C12_ClassifierAgreesWithTable ==
    \A k \in 1..Len(artifacts.Manifests) :
        LET m == artifacts.Manifests[k]
        IN  m.ClusterScoped <=> isClusterScopedKind(m.Kind)

\* C13: a bundle with an input error (a subject or inventory document that
\* has no kind, or an empty base name reaching the allocator) is skipped as a
\* whole: none of its documents is rewritten or written.
C13_BadBundleSkipped ==
    (/\ pc = "rewrite"
     /\ \E i \in 1..Len(origDocs) :
           getStr(origDocs[i].kind) = "" \/ allDocs[i].newName = "")
        => /\ docNo = 1
           /\ \A k \in 1..Len(artifacts.Manifests) :
                 artifacts.Manifests[k].CaseName # CurrentCase.Name

\* C14: in run, for every list of tasks and every pattern of failures, each
\* task is processed exactly once in sorted-ID order; a task that fails is
\* counted in skipped, every later task is still processed (no failure ends
\* the run), and at the end generated + skipped equals the number of tasks.
C14_RunSurvivesFailures ==
    /\ pc # "panic"
    /\ pc = "run" => generated + skipped = taskNo
    /\ pc \in {"cases", "rewrite"} =>
          /\ task.TaskID = TaskID(taskNo)
          /\ generated + skipped = taskNo - 1
    /\ pc = "done" => generated + skipped = NumTasks

\* C16: the name map is scoped to one case: the map consulted while the
\* documents of a case are rewritten holds only entries recorded for
\* documents of that case, each with the canonical name of such a document;
\* a mapping recorded in another case is never consulted.
C16_NameMapPerCase ==
    pc = "rewrite" =>
        \A k \in DOMAIN nameMap :
            \E i \in 1..Len(allDocs) :
                /\ getStr(origDocs[i].name) # ""
                /\ ownKey(origDocs[i]) = k
                /\ nameMap[k] = allDocs[i].newName

\* the second case refers to the service account "sa1" that only the first
\* case holds: its map has no entry for it and the reference is kept
C16_Witness ==
    /\ pc = "rewrite"
    /\ caseNo = 1
    /\ docNo > Len(allDocs)
    /\ \E k \in 1..Len(artifacts.Manifests) :
          /\ artifacts.Manifests[k].CaseName = "case-1"
          /\ artifacts.Manifests[k].Kind = "ServiceAccount"
          /\ artifacts.Manifests[k].Name = "sa1"
    /\ nameKey("ServiceAccount", "gk-t1", "sa1") \notin DOMAIN nameMap
    /\ \E i \in 1..Len(allDocs) :
          /\ origDocs[i].serviceAccountName = "sa1"
          /\ allDocs[i].doc.serviceAccountName = "sa1"

(***************************************************************************)
(* Properties of the deployability rules (checked under SpecNormalize).    *)
(***************************************************************************)
LastRule == normRules[Len(normRules)]

Min(a, b) == IF a < b THEN a ELSE b

\* C17: replica capping: for every document tagged violating (expected =
\* beta) that declares a replica count r, the count after normalization is
\* min(r, 5) (100 becomes 5); for every document tagged compliant the count is
\* left exactly as declared (3 stays 3).
C17_ReplicaCapping ==
    (/\ normRules # <<>>
     /\ LastRule \in {"rewriteManifest", "fixReplicaCount"}
     /\ normPrev.replicas # <<>>)
        => /\ Len(normDoc.replicas) = 1
           /\ normDoc.replicas[1] =
                 IF normExpected = "beta"
                 THEN Min(normPrev.replicas[1], 5)
                 ELSE normPrev.replicas[1]

\* the replica limits a policy may enforce: every limit below the ceiling
PolicyLimits == 0..(maxBetaReplicas - 1)

\* C18: verdict preservation under replica capping: for every policy replica
\* limit L below the ceiling 5 and every violating workload with replicas
\* r > L, the replica count after fixReplicaCount is still > L; a compliant
\* workload with r <= L still has r <= L.
C18_VerdictPreserved ==
    (/\ normRules # <<>>
     /\ LastRule \in {"rewriteManifest", "fixReplicaCount"}
     /\ normPrev.replicas # <<>>)
        => /\ Len(normDoc.replicas) = 1
           /\ \A L \in PolicyLimits :
                 /\ (normExpected = "beta" /\ normPrev.replicas[1] > L)
                       => normDoc.replicas[1] > L
                 /\ (normExpected = "alpha" /\ normPrev.replicas[1] <= L)
                       => normDoc.replicas[1] <= L

\* a violating Deployment with 100 replicas has been capped to 5, above the
\* corpus limit 3
C18_Witness ==
    /\ normRules # <<>>
    /\ LastRule = "fixReplicaCount"
    /\ normExpected = "beta"
    /\ normDoc.kind = "Deployment"
    /\ normPrev.replicas = <<100>>
    /\ normDoc.replicas = <<5>>
    /\ 3 \in PolicyLimits

WorkloadKinds == {"Pod", "Deployment", "ReplicaSet", "DaemonSet", "StatefulSet"}

NormalizerRules == {"fixReplicaCount", "fixInitContainers", "fixBadImages"}

\* the document meets a precondition of the rule
MatchesRule(rule, doc, expected) ==
    LET podKind == getStr(doc.kind) \in WorkloadKinds
    IN  CASE rule = "fixReplicaCount" ->
                /\ expected = "beta"
                /\ \E i \in 1..Len(doc.replicas) : doc.replicas[i] > 5
          [] rule = "fixInitContainers" ->
                /\ podKind
                /\ \E i \in 1..Len(doc.initContainers) :
                      \/ Contains(getStr(doc.initContainers[i].image), "nginx")
                      \/ Contains(getStr(doc.initContainers[i].image), "opa")
          [] rule = "fixBadImages" ->
                /\ podKind
                /\ \E c \in Range(doc.containers) \cup Range(doc.initContainers) :
                      c.image \in {"tomcat", "nginx:1.7.9"}
          [] OTHER -> TRUE

\* C20: each normalizer rule taken alone (fixReplicaCount, fixInitContainers,
\* fixBadImages) is total and idempotent: applying the rule twice gives the
\* same document as applying it once, and a document matching no
\* precondition of the rule is returned unchanged.
C20_RulesIdempotent ==
    /\ (/\ Len(normRules) >= 2
        /\ LastRule \in NormalizerRules
        /\ normRules[Len(normRules) - 1] = LastRule)
          => normDoc = normPrev
    /\ (/\ normRules # <<>>
        /\ LastRule \in NormalizerRules
        /\ ~MatchesRule(LastRule, normPrev, normExpected))
          => normDoc = normPrev

\* fixBadImages has been applied twice to a document with the image "tomcat",
\* which its first application replaced
C20_Witness ==
    /\ normRules = <<"fixBadImages", "fixBadImages">>
    /\ \E i \in 1..Len(normInput.containers) :
          /\ normInput.containers[i].image = "tomcat"
          /\ normDoc.containers[i].image = "nginx"
    /\ normDoc # normInput

BindingKinds == {"RoleBinding", "ClusterRoleBinding"}

\* C21: for a RoleBinding or ClusterRoleBinding, every subject of kind
\* ServiceAccount that has no namespace gets its name resolved through the
\* name map in the binding's own namespace and its namespace set to the
\* binding's namespace; subjects of any other kind (User, Group) are left
\* unchanged.
C21_SubjectNamespaceDefaulted ==
    \A i \in 1..Len(allDocs) :
        (Rewritten(i) /\ getStr(origDocs[i].kind) \in BindingKinds) =>
            LET bindingNS == "gk-" \o task.TaskID
                before == origDocs[i].subjects
                after == allDocs[i].doc.subjects
            IN  /\ Len(after) = Len(before)
                /\ getStr(origDocs[i].kind) = "RoleBinding" =>
                      allDocs[i].doc.namespace = bindingNS
                /\ \A j \in 1..Len(before) :
                      /\ (/\ before[j].kind = "ServiceAccount"
                          /\ before[j].namespace = None
                          /\ getStr(before[j].name) # "") =>
                            LET key == nameKey("ServiceAccount", bindingNS, before[j].name)
                            IN  /\ after[j].namespace = bindingNS
                                /\ after[j].name = IF key \in DOMAIN nameMap
                                                   THEN nameMap[key]
                                                   ELSE before[j].name
                      /\ before[j].kind # "ServiceAccount" => after[j] = before[j]

\* a ClusterRoleBinding whose subject "sa1" has no namespace has been
\* rewritten in a bundle that maps "sa1" to "sa1-2"; its Group subject of the
\* same name is as it was
C21_Witness ==
    \E i \in 1..Len(allDocs) :
        /\ Rewritten(i)
        /\ origDocs[i].kind = "ClusterRoleBinding"
        /\ origDocs[i].subjects[1] = Subject("ServiceAccount", "sa1", None)
        /\ allDocs[i].doc.subjects[1] = Subject("ServiceAccount", "sa1-2", "gk-t1")
        /\ allDocs[i].doc.subjects[2] = Subject("Group", "sa1", None)

\* C22: no false-positive rename: a reference field looked up as (kind K,
\* scope S, name n) is rewritten only when the bundle's name map holds an
\* entry for exactly (K, S, n), recorded for a document of that kind, scope
\* and name; a document of another kind or scope with the same original name
\* never changes the field.
C22_NoFalsePositiveRename ==
    \A i \in 1..Len(allDocs) :
        Rewritten(i) =>
            LET before == RefsIn(origDocs[i], "gk-" \o task.TaskID)
                after == RefsIn(allDocs[i].doc, "gk-" \o task.TaskID)
            IN  \A r \in before :
                    \E q \in after :
                        /\ q.f = r.f
                        /\ q.i = r.i
                        /\ q.name # r.name =>
                              /\ nameKey(r.kind, r.ns, r.name) \in DOMAIN nameMap
                              /\ q.name = nameMap[nameKey(r.kind, r.ns, r.name)]
                              /\ \E e \in 1..Len(allDocs) :
                                    ownKey(origDocs[e]) = nameKey(r.kind, r.ns, r.name)

\* a PersistentVolumeClaim with storageClassName "fast" has been rewritten in
\* a bundle that maps the Widget "fast" to "fast-2" and holds no StorageClass:
\* the field is still "fast"
C22_Witness ==
    \E i \in 1..Len(allDocs) :
        /\ Rewritten(i)
        /\ origDocs[i].kind = "PersistentVolumeClaim"
        /\ origDocs[i].storageClassName = "fast"
        /\ allDocs[i].doc.storageClassName = "fast"
        /\ nameKey("Widget", "gk-t1", "fast") \in DOMAIN nameMap
        /\ nameMap[nameKey("Widget", "gk-t1", "fast")] = "fast-2"
        /\ nameKey("StorageClass", "", "fast") \notin DOMAIN nameMap

\* the (kind, name) entries of the manifests recorded as cluster-scoped, in order
RECURSIVE ClusterEntries(_)
ClusterEntries(ms) ==
    IF ms = <<>> THEN <<>>
    ELSE (IF Head(ms).ClusterScoped
          THEN <<[Kind |-> Head(ms).Kind, Name |-> Head(ms).Name]>> ELSE <<>>)
         \o ClusterEntries(Tail(ms))

\* C23: the bookkeeping returned by GenerateManifests matches the written
\* documents: every recorded manifest's Kind, Name, Namespace and
\* ClusterScoped equal the written document's kind, metadata.name,
\* metadata.namespace and scope; artifacts.ClusterResources holds one (kind,
\* canonical name) entry for each cluster-scoped document and none for a
\* namespace-scoped one; artifacts.Namespaces contains the namespace of every
\* namespace-scoped document.
C23_BookkeepingMatches ==
    /\ \A k \in 1..Len(artifacts.Manifests) :
          LET m == artifacts.Manifests[k]
          IN  /\ m.Kind = m.Doc.kind
              /\ m.Name = m.Doc.name
              /\ m.Namespace = getStr(m.Doc.namespace)
              /\ m.ClusterScoped <=> isClusterScoped(m.Doc.kind)
              /\ ~m.ClusterScoped => m.Namespace \in nsSet
              /\ (pc \in {"run", "done"} /\ ~m.ClusterScoped)
                    => m.Namespace \in artifacts.Namespaces
    /\ artifacts.ClusterResources = ClusterEntries(artifacts.Manifests)

\* a task has been generated with a cluster-scoped and a namespace-scoped document
C23_Witness ==
    /\ pc = "run"
    /\ generated = 1
    /\ Len(artifacts.ClusterResources) = 1
    /\ \E k \in 1..Len(artifacts.Manifests) :
          /\ ~artifacts.Manifests[k].ClusterScoped
          /\ artifacts.Manifests[k].Namespace = "gk-t1"
    /\ "gk-t1" \in artifacts.Namespaces

\* the context rewriteManifest gets for document i of the current bundle
ctxOf(i) ==
    [name |-> allDocs[i].newName, ns |-> "gk-" \o task.TaskID, nameMap |-> nameMap,
     taskID |-> task.TaskID, expected |-> CurrentCase.Expected, isInv |-> allDocs[i].isInv]

\* while the documents of a case are rewritten, every document of the bundle
\* already has its name allocated and recorded, and each rewritten document
\* is the result of identity, then references, then deployability fixes,
\* with every reference resolved through that map
C24_MapCompleteBeforeRewrite ==
    pc = "rewrite" =>
        /\ \A i \in 1..Len(allDocs) :
              /\ getStr(origDocs[i].name) # "" => ownKey(origDocs[i]) \in DOMAIN nameMap
              /\ nameKey(ownKey(origDocs[i]).kind, ownKey(origDocs[i]).namespace,
                         allDocs[i].newName) \in nameAllocator
        /\ \A i \in 1..Len(allDocs) :
              Rewritten(i) =>
                 /\ allDocs[i].doc =
                       applyDeployabilityFixes(
                           rewriteReferences(applyIdentity(origDocs[i], ctxOf(i)), ctxOf(i)))
                 /\ \A r \in RefsIn(origDocs[i], "gk-" \o task.TaskID) :
                       \E q \in RefsIn(allDocs[i].doc, "gk-" \o task.TaskID) :
                           /\ q.f = r.f
                           /\ q.i = r.i
                           /\ q.name = IF nameKey(r.kind, r.ns, r.name) \in DOMAIN nameMap
                                       THEN nameMap[nameKey(r.kind, r.ns, r.name)]
                                       ELSE r.name

\* C24: ordering inside one case: every allocate and nameMap.set call for all
\* documents of the bundle (inventory first, then the subject) happens before
\* the first rewriteManifest call and none after it, so a reference resolves
\* the same way whether the referencing document is processed before or
\* after the document it points to; for each document the steps run in the
\* order identity, references, deployability fixes.
C24_AllocateBeforeRewrite ==
    /\ [](C24_MapCompleteBeforeRewrite)
    /\ [][(pc = "rewrite" /\ pc' = "rewrite")
             => (nameMap' = nameMap /\ nameAllocator' = nameAllocator)]_vars

\* an inventory Deployment, rewritten before the subject, names the service
\* account that is the subject: the name has become the subject's canonical
\* name "sa1-2"
C24_Witness ==
    /\ pc = "rewrite"
    /\ docNo = Len(allDocs)
    /\ Len(allDocs) = 3
    /\ origDocs[2].kind = "Deployment"
    /\ origDocs[2].serviceAccountName = "sa1"
    /\ origDocs[3].kind = "ServiceAccount"
    /\ allDocs[3].newName = "sa1-2"
    /\ allDocs[2].doc.serviceAccountName = "sa1-2"

\* C25: every task that run counts as generated has at least one alpha
\* manifest and at least one beta manifest among its written artifacts, also
\* when some of its cases are dropped inside GenerateManifests.
C25_GeneratedHasAlphaAndBeta ==
    [][generated' = generated + 1 =>
          /\ \E i \in 1..Len(artifacts'.Manifests) :
                /\ ~artifacts'.Manifests[i].Inventory
                /\ artifacts'.Manifests[i].Expected = "alpha"
                /\ artifacts'.Manifests[i].Path \in DOMAIN files'
          /\ \E i \in 1..Len(artifacts'.Manifests) :
                /\ ~artifacts'.Manifests[i].Inventory
                /\ artifacts'.Manifests[i].Expected = "beta"
                /\ artifacts'.Manifests[i].Path \in DOMAIN files']_vars

\* C26: within one task no two manifests recorded by GenerateManifests have
\* the same artifact file path (RelPath): every document is written to its
\* own file and no file written for one case is overwritten by a later case.
C26_RelPathsUnique ==
    \A i, j \in 1..Len(artifacts.Manifests) :
        i # j => artifacts.Manifests[i].RelPath # artifacts.Manifests[j].RelPath

\* C27: the whole deployability pass applyDeployabilityFixes (fixInitContainers
\* followed by fixBadImages) is idempotent for every document, and after it
\* every init container whose image contains "nginx" carries the trivial exit
\* command, also an init container whose image was "tomcat" before the pass.
C27_DeployabilityPassIdempotent ==
    /\ (/\ Len(normRules) >= 2
        /\ LastRule = "applyDeployabilityFixes"
        /\ normRules[Len(normRules) - 1] = "applyDeployabilityFixes")
          => normDoc = normPrev
    /\ (/\ normRules # <<>>
        /\ LastRule = "applyDeployabilityFixes"
        /\ getStr(normDoc.kind) \in WorkloadKinds)
          => \A i \in 1..Len(normDoc.initContainers) :
                Contains(getStr(normDoc.initContainers[i].image), "nginx") =>
                    /\ normDoc.initContainers[i].command = <<"sh", "-c", "exit 0">>
                    /\ normDoc.initContainers[i].args = <<>>

\* the namespaces a script names with the verb (kubectl takes the resource
\* type in either spelling)
NamespacesOf(commands, verb) ==
    {c.name : c \in {x \in commands :
                        x.verb = verb /\ x.kind \in {"namespace", "Namespace"}}}

\* C28: the set of namespaces that setup.sh deletes and re-creates equals the
\* set that cleanup.sh deletes, namely artifacts.Namespaces without "default"
\* and "kube-system": the generated scripts never create or delete the default
\* or kube-system namespace, and every namespace created by setup is deleted
\* by cleanup.
C28_ScriptNamespacesAgree ==
    (pc \in {"run", "done"} /\ task.TaskID \in DOMAIN scripts) =>
        LET s == scripts[task.TaskID]
            expected == artifacts.Namespaces \ {"default", "kube-system"}
        IN  /\ NamespacesOf(s.setup, "delete") = expected
            /\ NamespacesOf(s.setup, "create") = expected
            /\ NamespacesOf(s.cleanup, "delete") = expected
            /\ NamespacesOf(s.setup \cup s.cleanup, "create") \cap {"default", "kube-system"} = {}
            /\ NamespacesOf(s.setup \cup s.cleanup, "delete") \cap {"default", "kube-system"} = {}

\* the goroutines whose validateTask call is in progress
InProgress == {i \in 1..Len(gpc) : gpc[i] = "validate"}

C29_BoundedAndOnce ==
    /\ Cardinality(InProgress) <= config.Parallel
    /\ \A i \in 1..Len(validated) : validated[i] <= 1
    /\ vpc = "returned" =>
          /\ \A i \in 1..Len(tasks) : validated[i] = 1
          /\ \A i \in 1..Len(gpc) : gpc[i] = "done"

\* C29: in validateTasksParallel, under every interleaving of the worker
\* goroutines, at most config.Parallel calls of validateTask are in progress
\* at the same time, every task is validated exactly once, and the function
\* returns only after all of them have finished; it always terminates when
\* each validateTask terminates.
C29_ParallelBoundedAndTerminates ==
    /\ [](C29_BoundedAndOnce)
    /\ <>(vpc = "returned")

\* three tasks with -parallel 2: two validations are in progress and the
\* third goroutine is held back by the full channel
C29_Witness ==
    /\ config.Parallel = 2
    /\ Len(tasks) = 3
    /\ Cardinality(InProgress) = 2
    /\ sem = 2
    /\ \E i \in 1..Len(gpc) : gpc[i] = "sem"

\* C30: for every task list and every interleaving, validateTasksParallel
\* returns the same result list as validateTasksSequential: results[i] is the
\* result of validating tasks[i], no result is lost, duplicated or written to
\* another task's slot, so run's pass/fail decision does not depend on the
\* -parallel setting.
C30_ParallelEqualsSequential ==
    vpc = "returned" =>
        /\ returned = validateTasksSequential(tasks)
        /\ Len(returned) = Len(tasks)
        /\ \A i \in 1..Len(tasks) : returned[i].TaskName = tasks[i].name
        /\ runFails(returned) = runFails(validateTasksSequential(tasks))

\* validateTasksParallel has returned after the goroutine of the second task
\* stored its result before the goroutine of the first, and the two results
\* differ in their verdict
C30_Witness ==
    /\ vpc = "returned"
    /\ config.Parallel > 1
    /\ Len(storeOrder) >= 2
    /\ storeOrder[1] = 2
    /\ returned[1].Passed # returned[2].Passed

====
